---- MODULE Spec2Model ----
(***************************************************************************)
(* A model of TypeDoc's Application (src/lib/application.ts): the single   *)
(* run convert(), the watch mode convertAndWatch(), and the entry point    *)
(* discovery they share (getEntrypointsForPackages, getEntrypointsForPaths,*)
(* expandInputFiles).                                                      *)
(*                                                                         *)
(* Representation.  A file name is a sequence of tokens, the stem followed *)
(* by its dot-suffixes (<<"a", ".ts">>); a path is a sequence of names.    *)
(* Paths are absolute and carry no separator, so Path.resolve and          *)
(* normalizePath (which only rewrites separators) leave them as they are.  *)
(* A ts.Program is a record: its identity, the set of paths for which      *)
(* getSourceFile answers, and the number of its pre-emit diagnostics.      *)
(***************************************************************************)
EXTENDS Integers, Sequences, FiniteSets, TLC

VARIABLES
    pc,               \* "start", "converted", "watching", "watchRefused"
    opts,             \* the options read by bootstrap()
    world,            \* what the file system and the compiler answered
    log,              \* the logger's messages, in order
    converterCalls,   \* one record per Converter.convert call, in order
    emitted,          \* the programs on which emit() was called, in order
    result,           \* what convert() returned
    successFinished,  \* convertAndWatch's local
    currentProgram,   \* convertAndWatch's local
    programsSeen,     \* the programs the watch host has created, in order
    successCalls,     \* one record per success(project) call, in order
    origCalls,        \* the origAfterProgramCreate calls, in order: the program
                      \* handed over and, for the latest call, the
                      \* conversions made by then
    resolver          \* the project under the ReferenceResolver and Serializer

vars == <<pc, opts, world, log, converterCalls, emitted, result,
          successFinished, currentProgram, programsSeen, successCalls, origCalls,
          resolver>>

\* undefined; every optional value of the model is a record.
None == [undefined |-> TRUE]

\* ------------------------------------------------------------------ bounds
MaxEntryPoints == 2
MaxPackages == 2
MaxRefs == 2
MaxPrograms == 3

\* ------------------------------------------------------------ file system
PSrc == << <<"src">> >>
PA == << <<"src">>, <<"a", ".ts">> >>
PB == << <<"src">>, <<"b", ".js">> >>
PSub == << <<"src">>, <<"sub">> >>
PC == << <<"src">>, <<"sub">>, <<"c", ".tsx">> >>
PX == << <<"x", ".ts">> >>

\* The paths of the model, in the order readdirSync lists them.
ReaddirOrder == <<PSrc, PA, PB, PSub, PC, PX>>

AllPaths == {ReaddirOrder[i] : i \in 1..Len(ReaddirOrder)}

Dirs == {PSrc, PSub}

Parent(p) == SubSeq(p, 1, Len(p) - 1)

Last(s) == s[Len(s)]

\* FS.existsSync: stat succeeds.
existsSync(w, p) == p \in w.exists /\ p \notin w.noStat

\* FS.readdirSync(dir): the directory's entries, in listing order.
readdirSync(w, dir) ==
    SelectSeq(ReaddirOrder, LAMBDA q : q \in w.exists /\ Len(q) = Len(dir) + 1
                                        /\ Parent(q) = dir)

\* exclude.some((mm) => mm.match(fileName)): the minimatch patterns are
\* modelled by the set of paths they match.
isExcluded(o, p) == p \in o.exclude

\* supportedFileRegex.test(file): /\.[tj]sx?$/ with allowJs or checkJs,
\* /\.tsx?$/ without.
supportedFile(o, p) ==
    LET suffix == Last(Last(p)) IN
    /\ Len(Last(p)) > 1
    /\ IF o.allowJs THEN suffix \in {".ts", ".tsx", ".js", ".jsx"}
                    ELSE suffix \in {".ts", ".tsx"}

RECURSIVE add(_, _, _, _, _)
RECURSIVE addEach(_, _, _, _)

\* add() with the exclude patterns applied to entry points as well.
addExcludesEntryPoints(o, w, file, entryPoint, files) ==
    IF file \in w.noStat THEN files
    ELSE IF isExcluded(o, file) THEN files
    ELSE IF file \in Dirs THEN addEach(o, w, readdirSync(w, file), files)
    ELSE IF supportedFile(o, file) THEN Append(files, file)
    ELSE files

\* expandInputFiles' inner add(file, entryPoint): the files list after it.
add(o, w, file, entryPoint, files) ==
    IF file \in w.noStat THEN files
    ELSE IF ~entryPoint /\ isExcluded(o, file) THEN files
    ELSE IF file \in Dirs THEN addEach(o, w, readdirSync(w, file), files)
    ELSE IF supportedFile(o, file) THEN Append(files, file)
    ELSE files

\* FS.readdirSync(file).forEach((next) => add(Path.join(file, next), false))
addEach(o, w, entries, files) ==
    IF entries = <<>> THEN files
    ELSE addEach(o, w, Tail(entries), add(o, w, Head(entries), FALSE, files))

Warn(msg, arg) == [level |-> "warn", msg |-> msg, arg |-> arg]
Error(msg, arg) == [level |-> "error", msg |-> msg, arg |-> arg]
Diagnostic(arg) == [level |-> "error", msg |-> "diagnostic", arg |-> arg]

RECURSIVE expandFrom(_, _, _, _)

\* inputFiles.forEach left at the first input that does not exist.
expandFromStopsAtMissing(o, w, inputFiles, acc) ==
    IF inputFiles = <<>> THEN acc
    ELSE LET file == Head(inputFiles) IN
         IF ~existsSync(w, file)
         THEN [acc EXCEPT !.log = Append(@, Warn("entry point does not exist", file))]
         ELSE expandFrom(o, w, Tail(inputFiles),
                  [acc EXCEPT !.files = add(o, w, file, TRUE, @)])

\* expandInputFiles' inputFiles.forEach: acc is [files, log].
expandFrom(o, w, inputFiles, acc) ==
    IF inputFiles = <<>> THEN acc
    ELSE LET file == Head(inputFiles) IN
         IF ~existsSync(w, file)
         THEN expandFrom(o, w, Tail(inputFiles),
                  [acc EXCEPT !.log = Append(@, Warn("entry point does not exist", file))])
         ELSE expandFrom(o, w, Tail(inputFiles),
                  [acc EXCEPT !.files = add(o, w, file, TRUE, @)])

\* Application.expandInputFiles: the expanded files and the warnings logged.
expandInputFiles(o, w, inputFiles) ==
    expandFrom(o, w, inputFiles, [files |-> <<>>, log |-> <<>>])

\* ------------------------------------------------------------ ts.Program
\* program.getSourceFile(file): undefined unless the program holds the file.
getSourceFile(program, file) ==
    IF file \in program.files THEN [fileName |-> file, program |-> program.id]
    ELSE None

\* ts.getPreEmitDiagnostics(program), one record per diagnostic.
getPreEmitDiagnostics(program) ==
    [i \in 1..program.ndiag |-> [program |-> program.id, n |-> i]]

RECURSIVE flatMapDiagnostics(_)

\* flatMap(programs, ts.getPreEmitDiagnostics)
flatMapDiagnostics(programs) ==
    IF programs = <<>> THEN <<>>
    ELSE getPreEmitDiagnostics(Head(programs)) \o flatMapDiagnostics(Tail(programs))

\* entrypoints.map((e) => e.program)
ProgramsOf(entrypoints) == [i \in 1..Len(entrypoints) |-> entrypoints[i].program]

\* ------------------------------------------------- getEntrypointsForPaths
\* The programs getEntrypointsForPaths searches: the root program, and for
\* a solution style tsconfig one program per resolved reference.
PathPrograms(o, w) ==
    <<w.rootProgram>> \o
    (IF o.fileNames = <<>> THEN SelectSeq(w.refs, LAMBDA r : r # None) ELSE <<>>)

RECURSIVE locate(_, _)

\* The inner loop over programs: the first program that holds the file.
locate(programs, file) ==
    IF programs = <<>> THEN None
    ELSE IF getSourceFile(Head(programs), file) # None THEN Head(programs)
    ELSE locate(Tail(programs), file)

RECURSIVE entryLoopStopsAtUnlocated(_, _, _)

\* A slip: the first file that no program holds ends the loop.
entryLoopStopsAtUnlocated(programs, files, acc) ==
    IF files = <<>> THEN acc
    ELSE LET file == Head(files)
             program == locate(programs, file)
         IN  IF program # None
             THEN entryLoopStopsAtUnlocated(programs, Tail(files),
                      [acc EXCEPT !.entrypoints =
                          Append(@, [path |-> file,
                                     sourceFile |-> getSourceFile(program, file),
                                     program |-> program])])
             ELSE [acc EXCEPT !.log =
                      Append(@, Warn("Unable to locate entry point", file))]

RECURSIVE entryLoop(_, _, _)

\* The loop labelled entryLoop: acc is [entrypoints, log].
entryLoop(programs, files, acc) ==
    IF files = <<>> THEN acc
    ELSE LET file == Head(files)
             program == locate(programs, file)
         IN  IF program # None
             THEN entryLoop(programs, Tail(files),
                      [acc EXCEPT !.entrypoints =
                          Append(@, [path |-> file,
                                     sourceFile |-> getSourceFile(program, file),
                                     program |-> program])])
             ELSE entryLoop(programs, Tail(files),
                      [acc EXCEPT !.log =
                          Append(@, Warn("Unable to locate entry point", file))])

\* Application.getEntrypointsForPaths(entryPointPaths): the entry points
\* and what was logged on the way.
getEntrypointsForPaths(o, w, entryPointPaths) ==
    LET expanded == expandInputFiles(o, w, entryPointPaths) IN
    entryLoop(PathPrograms(o, w), expanded.files,
              [entrypoints |-> <<>>, log |-> expanded.log])

\* ---------------------------------------------- getEntrypointsForPackages
\* What the package helpers and the compiler answer for one expanded
\* package: manifest (loadPackageManifest found one), entry
\* (getTsEntryPointForPackage: "undefined", "ignore" or "file"), tsconfig
\* (ts.findConfigFile found one), parsed (getParsedCommandLineOfConfigFile
\* returned a command line), fatalError (onUnRecoverableConfigFileDiagnostic
\* was called), nerrors (parsedCommandLine.errors), inProgram (the created
\* program holds the entry point), ndiag (the program's diagnostics).
PackageEntryPoint(pkg) == << <<pkg.name>>, <<"index", ".ts">> >>

\* ts.createProgram for the package at position i of the expansion.
PackageProgram(pkg, i) ==
    [id |-> i,
     files |-> IF pkg.inProgram THEN {PackageEntryPoint(pkg)} ELSE {},
     ndiag |-> pkg.ndiag]

RECURSIVE packageLoopSkipsUnbuilt(_, _, _)

\* A slip: a package whose entry point its program does not hold is skipped
\* with the error logged, and the loop goes on.
packageLoopSkipsUnbuilt(packages, i, acc) ==
    IF i > Len(packages) THEN acc
    ELSE LET pkg == packages[i]
             fail(entry) == [ok |-> FALSE, results |-> <<>>, log |-> Append(acc.log, entry)]
             program == PackageProgram(pkg, i)
             sourceFile == getSourceFile(program, PackageEntryPoint(pkg))
         IN  IF ~pkg.manifest
             THEN fail(Error("Could not load package manifest", pkg.name))
             ELSE IF pkg.entry = "undefined"
             THEN fail(Error("Could not determine TS entry point", pkg.name))
             ELSE IF pkg.entry = "ignore"
             THEN packageLoopSkipsUnbuilt(packages, i + 1, acc)
             ELSE IF ~pkg.tsconfig
             THEN fail(Error("Could not determine tsconfig.json", pkg.name))
             ELSE IF ~pkg.parsed \/ pkg.fatalError
             THEN fail(Diagnostic(pkg.name))
             ELSE IF sourceFile = None
             THEN packageLoopSkipsUnbuilt(packages, i + 1,
                      [acc EXCEPT !.log =
                          Append(@, Error("Entrypoint does not appear to be built", pkg.name))])
             ELSE packageLoopSkipsUnbuilt(packages, i + 1,
                      [acc EXCEPT !.results =
                          Append(@, [displayName |-> pkg.name,
                                     path |-> PackageEntryPoint(pkg),
                                     sourceFile |-> sourceFile,
                                     program |-> program])])

RECURSIVE packageLoop(_, _, _)

\* The loop over expandedPackages from position i: acc is [ok, results, log];
\* ok = FALSE stands for the bare return (undefined).
packageLoop(packages, i, acc) ==
    IF i > Len(packages) THEN acc
    ELSE LET pkg == packages[i]
             fail(entry) == [ok |-> FALSE, results |-> <<>>, log |-> Append(acc.log, entry)]
             program == PackageProgram(pkg, i)
             sourceFile == getSourceFile(program, PackageEntryPoint(pkg))
         IN  IF ~pkg.manifest
             THEN fail(Error("Could not load package manifest", pkg.name))
             ELSE IF pkg.entry = "undefined"
             THEN fail(Error("Could not determine TS entry point", pkg.name))
             ELSE IF pkg.entry = "ignore"
             THEN packageLoop(packages, i + 1, acc)
             ELSE IF ~pkg.tsconfig
             THEN fail(Error("Could not determine tsconfig.json", pkg.name))
             ELSE IF ~pkg.parsed
             THEN fail(Diagnostic(pkg.name))
             ELSE LET logged ==
                          acc.log
                          \o (IF pkg.fatalError THEN <<Diagnostic(pkg.name)>> ELSE <<>>)
                          \o [k \in 1..pkg.nerrors |-> Diagnostic(pkg.name)]
                  IN  IF pkg.fatalError
                      THEN [ok |-> FALSE, results |-> <<>>, log |-> logged]
                      ELSE IF sourceFile = None
                      THEN [ok |-> FALSE, results |-> <<>>,
                            log |-> Append(logged,
                                Error("Entrypoint does not appear to be built", pkg.name))]
                      ELSE packageLoop(packages, i + 1,
                               [acc EXCEPT
                                   !.log = logged,
                                   !.results =
                                       Append(@, [displayName |-> pkg.name,
                                                  path |-> PackageEntryPoint(pkg),
                                                  sourceFile |-> sourceFile,
                                                  program |-> program])])

\* getEntrypointsForPackages(logger, packageGlobPaths), given the expansion
\* expandPackages answered.
getEntrypointsForPackages(expandedPackages) ==
    packageLoop(expandedPackages, 1, [ok |-> TRUE, results |-> <<>>, log |-> <<>>])

\* ---------------------------------------------------- Converter.convert
\* The call this.converter.convert(entrypoints): the project it returns is
\* known by the call that made it and the entry points it was given.
Project(n, entrypoints) == [project |-> n, entrypoints |-> entrypoints]

\* ------------------------------------------------------ Application.convert
\* The warnings both convert() and convertAndWatch() start with.
VersionWarning(o) ==
    IF o.versionSupported THEN <<>>
    ELSE <<Warn("unsupported TypeScript version", None)>>

\* A slip: an entry point path that no program holds makes the discovery
\* fail, as a package entry point outside its program does.
DiscoverEntrypointsUnlocatedFatal(o, w) ==
    LET fromPackages == getEntrypointsForPackages(w.packages)
        fromPaths == getEntrypointsForPaths(o, w, o.entryPoints)
        usePaths == fromPackages.ok /\ fromPackages.results = <<>>
        unlocated == \E i \in 1..Len(fromPaths.log) :
                         fromPaths.log[i].msg = "Unable to locate entry point"
    IN  [ok |-> fromPackages.ok /\ (usePaths => ~unlocated),
         entrypoints |-> IF usePaths THEN fromPaths.entrypoints ELSE fromPackages.results,
         log |-> fromPackages.log \o (IF usePaths THEN fromPaths.log ELSE <<>>)]

\* convert(), from reading the packages option to the entry point list:
\* ok = FALSE where convert() returns on getEntrypointsForPackages'
\* undefined; the paths are consulted only when the packages gave nothing.
DiscoverEntrypoints(o, w) ==
    LET fromPackages == getEntrypointsForPackages(w.packages)
        fromPaths == getEntrypointsForPaths(o, w, o.entryPoints)
        usePaths == fromPackages.ok /\ fromPackages.results = <<>>
    IN  [ok |-> fromPackages.ok,
         entrypoints |-> IF usePaths THEN fromPaths.entrypoints ELSE fromPackages.results,
         log |-> fromPackages.log \o (IF usePaths THEN fromPaths.log ELSE <<>>)]

\* A slip: only the first entry point's program is asked for diagnostics.
PreEmitErrorsFirstOnly(entrypoints) ==
    IF entrypoints = <<>> THEN <<>>
    ELSE getPreEmitDiagnostics(entrypoints[1].program)

\* const errors = flatMap(programs, ts.getPreEmitDiagnostics)
PreEmitErrors(entrypoints) == flatMapDiagnostics(ProgramsOf(entrypoints))

\* A slip: one Converter.convert call per entry point.
ConverterCallsPerEntrypoint(entrypoints) ==
    [i \in 1..Len(entrypoints) |-> [entrypoints |-> <<entrypoints[i]>>]]

\* this.converter.convert(entrypoints), as the calls made.
ConverterCalls(entrypoints) == <<[entrypoints |-> entrypoints]>>

\* A slip: a run that logged a warning returns undefined, as a run with
\* errors does.
ConvertOutcomeWarningsFatal(o, w) ==
    LET log1 == VersionWarning(o)
                \o (IF o.compilerOptionsEmpty /\ o.packages = <<>>
                    THEN <<Warn("No compiler options set", None)>> ELSE <<>>)
        found == DiscoverEntrypoints(o, w)
        entrypoints == found.entrypoints
        errors == PreEmitErrors(entrypoints)
        calls == ConverterCalls(entrypoints)
        logged == log1 \o found.log
        warned == \E i \in 1..Len(logged) : logged[i].level = "warn"
    IN  IF ~found.ok \/ Len(errors) > 0 \/ warned
        THEN [log |-> logged, calls |-> <<>>, emitted |-> <<>>, result |-> None]
        ELSE [log |-> logged,
              calls |-> calls,
              emitted |-> IF o.emit THEN ProgramsOf(entrypoints) ELSE <<>>,
              result |-> Project(Len(calls), entrypoints)]

\* convert(): what it logs, the Converter.convert calls it makes, the
\* programs it emits and what it returns.
ConvertOutcome(o, w) ==
    LET log1 == VersionWarning(o)
                \o (IF o.compilerOptionsEmpty /\ o.packages = <<>>
                    THEN <<Warn("No compiler options set", None)>> ELSE <<>>)
        found == DiscoverEntrypoints(o, w)
        entrypoints == found.entrypoints
        programs == ProgramsOf(entrypoints)
        errors == PreEmitErrors(entrypoints)
        calls == ConverterCalls(entrypoints)
    IN  IF ~found.ok
        THEN [log |-> log1 \o found.log, calls |-> <<>>, emitted |-> <<>>,
              result |-> None]
        ELSE IF Len(errors) > 0
        THEN [log |-> log1 \o found.log
                      \o [k \in 1..Len(errors) |-> Diagnostic(errors[k])],
              calls |-> <<>>, emitted |-> <<>>, result |-> None]
        ELSE [log |-> log1 \o found.log,
              calls |-> calls,
              emitted |-> IF o.emit THEN programs ELSE <<>>,
              result |-> Project(Len(calls), entrypoints)]

\* ------------------------------------------------------------- the inputs
SeqsUpTo(S, n) == UNION {[1..k -> S] : k \in 0..n}

\* The option values that only decide what is logged or emitted.
FlagProfiles ==
    {[versionSupported |-> TRUE, compilerOptionsEmpty |-> FALSE, allowJs |-> FALSE, emit |-> FALSE],
     [versionSupported |-> FALSE, compilerOptionsEmpty |-> TRUE, allowJs |-> FALSE, emit |-> TRUE],
     [versionSupported |-> TRUE, compilerOptionsEmpty |-> FALSE, allowJs |-> TRUE, emit |-> TRUE],
     [versionSupported |-> FALSE, compilerOptionsEmpty |-> TRUE, allowJs |-> FALSE, emit |-> FALSE]}

Options(flags, packages, entryPoints, exclude, fileNames) ==
    [versionSupported |-> flags.versionSupported,
     compilerOptionsEmpty |-> flags.compilerOptionsEmpty,
     allowJs |-> flags.allowJs,
     emit |-> flags.emit,
     packages |-> packages,
     entryPoints |-> entryPoints,
     exclude |-> exclude,
     fileNames |-> fileNames]

\* Options of a run over entry point paths.
PathOptions ==
    {Options(f, <<>>, e, IF f.allowJs THEN {PSub} ELSE {}, n) :
        f \in FlagProfiles, e \in SeqsUpTo({PSrc, PX}, MaxEntryPoints),
        n \in {<<>>, <<PX>>}}

\* Options of a run over packages.
PackageOptions ==
    {Options(f, <<"packages/*">>, e, {}, n) :
        f \in FlagProfiles, e \in {<<>>, <<PX>>}, n \in {<<>>, <<PX>>}}

\* The file systems of the runs: the paths that exist, and those among them
\* on which statSync throws (a dangling link, no permission).
FsChoices ==
    {[exists |-> {PX}, noStat |-> {}],
     [exists |-> {PSrc, PA, PB, PX}, noStat |-> {}],
     [exists |-> AllPaths, noStat |-> {}],
     [exists |-> AllPaths, noStat |-> {PA}]}

\* One expanded package, by the step of the loop that it reaches.
PackageAnswer(name, manifest, entry, tsconfig, parsed, fatalError, nerrors, inProgram, ndiag) ==
    [name |-> name, manifest |-> manifest, entry |-> entry, tsconfig |-> tsconfig,
     parsed |-> parsed, fatalError |-> fatalError, nerrors |-> nerrors,
     inProgram |-> inProgram, ndiag |-> ndiag]

PackageAnswers ==
    {PackageAnswer("good", TRUE, "file", TRUE, TRUE, FALSE, 0, TRUE, 0),
     PackageAnswer("other", TRUE, "file", TRUE, TRUE, FALSE, 1, TRUE, 0),
     PackageAnswer("diag", TRUE, "file", TRUE, TRUE, FALSE, 0, TRUE, 1),
     PackageAnswer("ignored", TRUE, "ignore", TRUE, TRUE, FALSE, 0, TRUE, 0),
     PackageAnswer("nomanifest", FALSE, "file", TRUE, TRUE, FALSE, 0, TRUE, 0),
     PackageAnswer("noentry", TRUE, "undefined", TRUE, TRUE, FALSE, 0, TRUE, 0),
     PackageAnswer("notsconfig", TRUE, "file", FALSE, TRUE, FALSE, 0, TRUE, 0),
     PackageAnswer("unparsed", TRUE, "file", TRUE, FALSE, TRUE, 0, TRUE, 0),
     PackageAnswer("fatal", TRUE, "file", TRUE, TRUE, TRUE, 0, TRUE, 0),
     PackageAnswer("unbuilt", TRUE, "file", TRUE, TRUE, FALSE, 0, FALSE, 0)}

\* The programs ts.createProgram can answer with over a file system: a
\* program holds only files that exist.
ProgramsOver(id, exists) ==
    {[id |-> id, files |-> fs, ndiag |-> n] :
        fs \in {{}, exists \cap {PX}, exists \ Dirs}, n \in {0, 1}}

\* The resolved project references of a solution style tsconfig, each the
\* program created for it, or undefined for a reference that did not resolve.
RefLists(exists) ==
    UNION {[1..k -> {None} \cup {p \in ProgramsOver(0, exists) : p.files # {}}] :
               k \in 0..MaxRefs}

WithIds(refs) ==
    [i \in 1..Len(refs) |-> IF refs[i] = None THEN None ELSE [refs[i] EXCEPT !.id = i]]

\* The expansions expandPackages can answer with.
PackageLists(o) ==
    IF o.packages = <<>> THEN {<<>>} ELSE SeqsUpTo(PackageAnswers, MaxPackages)

\* ------------------------------------------------------------ single run
Init ==
    /\ pc = "start"
    /\ opts \in PathOptions \cup PackageOptions
    /\ world = None
    /\ log = <<>>
    /\ converterCalls = <<>>
    /\ emitted = <<>>
    /\ result = None
    /\ successFinished = TRUE
    /\ currentProgram = None
    /\ programsSeen = <<>>
    /\ successCalls = <<>>
    /\ origCalls = <<>>
    /\ resolver = None

\* One call of Application.convert().  The file system and the compiler
\* are consulted for entry point paths only when the packages gave none.
Convert ==
    /\ pc = "start"
    /\ \E pk \in PackageLists(opts) :
        LET fromPackages == getEntrypointsForPackages(pk)
            asked == fromPackages.ok /\ fromPackages.results = <<>>
            solution == opts.fileNames = <<>>
        IN
        \E fs \in IF asked THEN FsChoices ELSE {[exists |-> {}, noStat |-> {}]} :
        \E root \in IF asked /\ ~solution THEN ProgramsOver(0, fs.exists)
                     ELSE {[id |-> 0, files |-> {}, ndiag |-> 0]} :
        \E refs \in IF asked /\ solution THEN RefLists(fs.exists) ELSE {<<>>} :
            LET w == [exists |-> fs.exists, noStat |-> fs.noStat, packages |-> pk,
                      rootProgram |-> root, refs |-> WithIds(refs)]
                out == ConvertOutcome(opts, w)
            IN
            /\ world' = w
            /\ log' = log \o out.log
            /\ converterCalls' = converterCalls \o out.calls
            /\ emitted' = emitted \o out.emitted
            /\ result' = out.result
    /\ pc' = "converted"
    /\ UNCHANGED <<resolver, opts, successFinished, currentProgram, programsSeen, successCalls, origCalls>>

Next == Convert

Spec == Init /\ [][Next]_vars

\* ------------------------------------------------------------ watch mode
RECURSIVE watchLoop(_, _, _)

\* runSuccess' loop over the expanded input files: acc is [entrypoints, log].
watchLoop(program, files, acc) ==
    IF files = <<>> THEN acc
    ELSE LET file == Head(files)
             sourceFile == getSourceFile(program, file)
         IN  IF sourceFile # None
             THEN watchLoop(program, Tail(files),
                      [acc EXCEPT !.entrypoints =
                          Append(@, [path |-> file,
                                     sourceFile |-> sourceFile,
                                     program |-> program])])
             ELSE watchLoop(program, Tail(files),
                      [acc EXCEPT !.log =
                          Append(@, Warn("Unable to locate entry point within the program", file))])

\* The locals and logs runSuccess reads and writes.
WatchState ==
    [currentProgram |-> currentProgram, successFinished |-> successFinished,
     log |-> log, converterCalls |-> converterCalls, successCalls |-> successCalls]

\* A slip: the entry point list outlives the cycle, so a cycle's entry
\* points are added to those of the cycles before it.
WatchEntrypointsAccumulated(o, w, st) ==
    LET expanded == expandInputFiles(o, w, o.entryPoints)
        earlier == IF st.converterCalls = <<>> THEN <<>>
                   ELSE st.converterCalls[Len(st.converterCalls)].entrypoints
    IN  watchLoop(st.currentProgram, expanded.files,
                  [entrypoints |-> earlier, log |-> expanded.log])

\* A slip: the input files are expanded once, by the first cycle, and the
\* later cycles reuse that list.
WatchEntrypointsExpandedOnce(o, w, st) ==
    LET first == IF st.converterCalls = <<>> THEN w ELSE st.converterCalls[1].fs
        expanded == expandInputFiles(o, first, o.entryPoints)
    IN  watchLoop(st.currentProgram, expanded.files,
                  [entrypoints |-> <<>>, log |-> expanded.log])

\* runSuccess(), from resetErrors() to the end of the loop: the entry points
\* of this cycle and what was logged.
WatchEntrypoints(o, w, st) ==
    LET expanded == expandInputFiles(o, w, o.entryPoints) IN
    watchLoop(st.currentProgram, expanded.files,
              [entrypoints |-> <<>>, log |-> expanded.log])

\* A slip: a cycle that found no entry point converts nothing.
runSuccessSkipsEmpty(o, w, seen, st) ==
    IF st.currentProgram = None THEN st
    ELSE IF ~st.successFinished THEN st
    ELSE LET found == WatchEntrypoints(o, w, st)
             project == Project(Len(st.converterCalls) + 1, found.entrypoints)
         IN  IF found.entrypoints = <<>>
             THEN [st EXCEPT !.log = st.log \o found.log]
             ELSE [currentProgram |-> None,
                   successFinished |-> FALSE,
                   log |-> st.log \o found.log,
                   converterCalls |-> Append(st.converterCalls,
                       [entrypoints |-> found.entrypoints,
                        program |-> st.currentProgram,
                        seen |-> seen,
                        fs |-> w]),
                   successCalls |-> Append(st.successCalls,
                       [project |-> project, promise |-> "pending"])]

\* runSuccess() without the successFinished test.
runSuccessIgnoresFinished(o, w, seen, st) ==
    IF st.currentProgram = None THEN st
    ELSE LET found == WatchEntrypoints(o, w, st)
             project == Project(Len(st.converterCalls) + 1, found.entrypoints)
         IN  [currentProgram |-> None,
              successFinished |-> FALSE,
              log |-> st.log \o found.log,
              converterCalls |-> Append(st.converterCalls,
                  [entrypoints |-> found.entrypoints,
                   program |-> st.currentProgram,
                   seen |-> seen,
                   fs |-> w]),
              successCalls |-> Append(st.successCalls,
                  [project |-> project, promise |-> "pending"])]

\* runSuccess() that leaves currentProgram set after the conversion.
runSuccessKeepsProgram(o, w, seen, st) ==
    IF st.currentProgram = None THEN st
    ELSE IF ~st.successFinished THEN st
    ELSE LET found == WatchEntrypoints(o, w, st)
             project == Project(Len(st.converterCalls) + 1, found.entrypoints)
         IN  [currentProgram |-> st.currentProgram,
              successFinished |-> FALSE,
              log |-> st.log \o found.log,
              converterCalls |-> Append(st.converterCalls,
                  [entrypoints |-> found.entrypoints,
                   program |-> st.currentProgram,
                   seen |-> seen,
                   fs |-> w]),
              successCalls |-> Append(st.successCalls,
                  [project |-> project, promise |-> "pending"])]

\* runSuccess(), on the locals st and the file system w (resetErrors()
\* clears the logger's counters, not its messages).  Each
\* Converter.convert call is noted with the program converted, the file
\* system it ran over and the number of programs the host had created by
\* then.  The promise success(project) returns starts pending.
runSuccess(o, w, seen, st) ==
    IF st.currentProgram = None THEN st
    ELSE IF ~st.successFinished THEN st
    ELSE LET found == WatchEntrypoints(o, w, st)
             project == Project(Len(st.converterCalls) + 1, found.entrypoints)
         IN  [currentProgram |-> None,
              successFinished |-> FALSE,
              log |-> st.log \o found.log,
              converterCalls |-> Append(st.converterCalls,
                  [entrypoints |-> found.entrypoints,
                   program |-> st.currentProgram,
                   seen |-> seen,
                   fs |-> w]),
              successCalls |-> Append(st.successCalls,
                  [project |-> project, promise |-> "pending"])]

\* A hook that takes every program, whatever its diagnostics.
afterProgramCreateIgnoresDiagnostics(o, w, seen, st, program) ==
    runSuccess(o, w, seen, [st EXCEPT !.currentProgram = program])

\* host.afterProgramCreate(program), up to the call of the original hook.
afterProgramCreate(o, w, seen, st, program) ==
    IF Len(getPreEmitDiagnostics(program)) = 0
    THEN runSuccess(o, w, seen, [st EXCEPT !.currentProgram = program])
    ELSE st

\* The programs the watch host can create over a file system.
WatchPrograms(id, exists) ==
    {[id |-> id, files |-> fs, ndiag |-> n] :
        fs \in {{}, exists \cap {PX}, exists \ Dirs}, n \in {0, 1}}

WatchFs == {[exists |-> {PX}, noStat |-> {}], [exists |-> AllPaths, noStat |-> {}]}

WatchOptions ==
    {Options(f, pk, e, {}, n) :
        f \in {g \in FlagProfiles : ~g.emit},
        pk \in {<<>>, <<"packages/*">>},
        e \in {<<PX>>, <<PSrc, PX>>},
        n \in {<<>>, <<PX>>}}

InitWatch ==
    /\ pc = "start"
    /\ opts \in WatchOptions
    /\ world = None
    /\ log = <<>>
    /\ converterCalls = <<>>
    /\ emitted = <<>>
    /\ result = None
    /\ successFinished = TRUE
    /\ currentProgram = None
    /\ programsSeen = <<>>
    /\ successCalls = <<>>
    /\ origCalls = <<>>
    /\ resolver = None

\* The programs the original hook has been handed so far.
HandedOver == [i \in 1..Len(origCalls) |-> [program |-> origCalls[i].program]]

\* The state after the watch host created a program over the file system fs
\* and called host.afterProgramCreate with it.
ProgramCreated(fs, program, logged) ==
    LET st == afterProgramCreate(opts, fs, Len(programsSeen) + 1,
                                 [WatchState EXCEPT !.log = logged], program)
    IN  /\ world' = fs
        /\ programsSeen' = Append(programsSeen, program)
        /\ currentProgram' = st.currentProgram
        /\ successFinished' = st.successFinished
        /\ log' = st.log
        /\ converterCalls' = st.converterCalls
        /\ successCalls' = st.successCalls
        /\ origCalls' = Append(HandedOver,
                               [program |-> program.id,
                                converted |-> Len(st.converterCalls)])

\* The warnings convertAndWatch() starts with.
WatchWarnings(o) ==
    VersionWarning(o)
    \o (IF o.compilerOptionsEmpty THEN <<Warn("No compiler options set", None)>> ELSE <<>>)

\* A slip: the packages option is not looked at.
WatchRefusalSolutionOnly(o) ==
    IF o.fileNames = <<>>
    THEN "solution style tsconfig is not supported in watch mode"
    ELSE "none"

\* convertAndWatch's two early returns: the error it logs, "none" when it
\* goes on.
WatchRefusal(o) ==
    IF o.fileNames = <<>>
    THEN "solution style tsconfig is not supported in watch mode"
    ELSE IF o.packages # <<>>
    THEN "--packages is not supported in watch mode"
    ELSE "none"

\* convertAndWatch(success) refuses a solution style tsconfig and the
\* packages option: it logs the error and returns.
ConvertAndWatchRefused ==
    /\ pc = "start"
    /\ WatchRefusal(opts) # "none"
    /\ log' = log \o WatchWarnings(opts) \o <<Error(WatchRefusal(opts), None)>>
    /\ pc' = "watchRefused"
    /\ UNCHANGED <<resolver, opts, world, converterCalls, emitted, result, successFinished,
                   currentProgram, programsSeen, successCalls, origCalls>>

\* convertAndWatch(success) otherwise: ts.createWatchProgram(host) creates
\* the first program and calls host.afterProgramCreate before it returns.
ConvertAndWatch ==
    /\ pc = "start"
    /\ WatchRefusal(opts) = "none"
    /\ \E fs \in WatchFs : \E program \in WatchPrograms(1, fs.exists) :
           ProgramCreated(fs, program, log \o WatchWarnings(opts))
    /\ pc' = "watching"
    /\ UNCHANGED <<resolver, opts, emitted, result>>

\* A file change: the watch host creates the next program and calls
\* host.afterProgramCreate with it.
AfterProgramCreate ==
    /\ pc = "watching"
    /\ Len(programsSeen) < MaxPrograms
    /\ \E fs \in WatchFs : \E program \in WatchPrograms(Len(programsSeen) + 1, fs.exists) :
           ProgramCreated(fs, program, log)
    /\ UNCHANGED <<resolver, pc, opts, emitted, result>>

\* A fulfilment handler that sets successFinished and does not call
\* runSuccess().
SuccessFulfilledNoRerun ==
    /\ pc = "watching"
    /\ \E i \in 1..Len(successCalls) :
        /\ successCalls[i].promise = "pending"
        /\ successCalls' = [successCalls EXCEPT ![i].promise = "fulfilled"]
    /\ successFinished' = TRUE
    /\ UNCHANGED <<resolver, pc, opts, world, log, converterCalls, emitted, result,
                   currentProgram, programsSeen, origCalls>>

\* The promise of the outstanding success(project) call fulfils: the
\* handler given to then() runs.
SuccessFulfilled ==
    /\ pc = "watching"
    /\ \E i \in 1..Len(successCalls) :
        /\ successCalls[i].promise = "pending"
        /\ LET st == runSuccess(opts, world, Len(programsSeen),
                         [WatchState EXCEPT
                             !.successFinished = TRUE,
                             !.successCalls[i].promise = "fulfilled"])
           IN  /\ currentProgram' = st.currentProgram
               /\ successFinished' = st.successFinished
               /\ log' = st.log
               /\ converterCalls' = st.converterCalls
               /\ successCalls' = st.successCalls
    /\ UNCHANGED <<resolver, pc, opts, world, emitted, result, programsSeen, origCalls>>

\* A rejection that sets successFinished, as a handler given for both
\* outcomes would.
SuccessRejectedResets ==
    /\ pc = "watching"
    /\ \E i \in 1..Len(successCalls) :
        /\ successCalls[i].promise = "pending"
        /\ successCalls' = [successCalls EXCEPT ![i].promise = "rejected"]
    /\ successFinished' = TRUE
    /\ UNCHANGED <<resolver, pc, opts, world, log, converterCalls, emitted, result,
                   currentProgram, programsSeen, origCalls>>

\* The promise of the outstanding success(project) call rejects: then() was
\* given no rejection handler, nothing runs.
SuccessRejected ==
    /\ pc = "watching"
    /\ \E i \in 1..Len(successCalls) :
        /\ successCalls[i].promise = "pending"
        /\ successCalls' = [successCalls EXCEPT ![i].promise = "rejected"]
    /\ UNCHANGED <<resolver, pc, opts, world, log, converterCalls, emitted, result,
                   successFinished, currentProgram, programsSeen, origCalls>>

\* Files appear or disappear before the watch host has created the next
\* program.
FilesChanged ==
    /\ pc = "watching"
    /\ \E fs \in WatchFs \ {world} : world' = fs
    /\ UNCHANGED <<resolver, pc, opts, log, converterCalls, emitted, result, successFinished,
                   currentProgram, programsSeen, successCalls, origCalls>>

NextWatch ==
    \/ ConvertAndWatchRefused
    \/ ConvertAndWatch
    \/ AfterProgramCreate
    \/ FilesChanged
    \/ SuccessFulfilled
    \/ SuccessRejected

SpecWatch == InitWatch /\ [][NextWatch]_vars

\* ================================================== claims, single run
Converted == pc = "converted"

HasLog(msg) == \E i \in 1..Len(log) : log[i].msg = msg

PathsOf(entrypoints) == [i \in 1..Len(entrypoints) |-> entrypoints[i].path]

\* The expansion failed at some package, by the answers alone.
PackageFails(pkg) ==
    \/ ~pkg.manifest
    \/ pkg.entry = "undefined"
    \/ /\ pkg.entry = "file"
       /\ (~pkg.tsconfig \/ ~pkg.parsed \/ pkg.fatalError \/ ~pkg.inProgram)

SomePackageFails == \E i \in 1..Len(world.packages) : PackageFails(world.packages[i])

\* The packages kept: those that are not ignored, in expansion order.
KeptPackages == SelectSeq(world.packages, LAMBDA pkg : pkg.entry # "ignore")

\* The run went on to the entry point paths.
PathsConsulted == Converted /\ ~SomePackageFails /\ KeptPackages = <<>>

\* The expanded input files of the run, and whether some program holds one.
ExpandedFiles == expandInputFiles(opts, world, opts.entryPoints).files

Located(file) ==
    \E i \in 1..Len(PathPrograms(opts, world)) : file \in PathPrograms(opts, world)[i].files

\* The first program of the search that holds the file.
HolderOf(file) ==
    LET ps == PathPrograms(opts, world)
        i == CHOOSE k \in 1..Len(ps) :
                 file \in ps[k].files /\ \A j \in 1..(k - 1) : file \notin ps[j].files
    IN  ps[i]

\* The programs of the entry points the run discovered, by the answers alone.
EntryPrograms ==
    IF KeptPackages # <<>>
    THEN {PackageProgram(world.packages[i], i) :
              i \in {k \in 1..Len(world.packages) : world.packages[k].entry # "ignore"}}
    ELSE {HolderOf(ExpandedFiles[i]) :
              i \in {k \in 1..Len(ExpandedFiles) : Located(ExpandedFiles[k])}}

SomeEntryProgramHasErrors == \E p \in EntryPrograms : p.ndiag > 0

\* The paths of the entry points the run discovered, in discovery order.
DiscoveredPaths ==
    IF KeptPackages # <<>>
    THEN [i \in 1..Len(KeptPackages) |-> PackageEntryPoint(KeptPackages[i])]
    ELSE SelectSeq(ExpandedFiles, Located)

\* C1: convert() is fail-fast on semantic errors: when a program of any
\* discovered entry point has a pre-emit diagnostic, convert() logs the
\* diagnostics, returns undefined and never calls Converter.convert.
C1_FailFastOnDiagnostics ==
    (Converted /\ ~SomePackageFails /\ SomeEntryProgramHasErrors)
        => /\ result = None
           /\ converterCalls = <<>>
           /\ HasLog("diagnostic")
           /\ emitted = <<>>

\* C1 witness: two entry points, the first program error free and the
\* second with a diagnostic, and the run returned undefined.
C1_Witness ==
    /\ Converted /\ ~SomePackageFails
    /\ \E p, q \in EntryPrograms : p.ndiag = 0 /\ q.ndiag > 0 /\ p.id < q.id
    /\ result = None

\* An expanded entry file that no program holds, or a package entry point
\* that its package's program does not hold.
UnlocatedPath ==
    PathsConsulted /\ \E i \in 1..Len(ExpandedFiles) : ~Located(ExpandedFiles[i])

UnbuiltPackageReached ==
    /\ Converted
    /\ \E i \in 1..Len(world.packages) :
        /\ world.packages[i].entry = "file" /\ ~world.packages[i].inProgram
        /\ \A j \in 1..(i - 1) : ~PackageFails(world.packages[j])

\* C2 as claimed: in a single run an entry point that cannot be located is
\* fatal, convert() returns undefined.
C2_UnlocatableIsFatal ==
    (UnlocatedPath \/ UnbuiltPackageReached) => result = None

\* C2 as amended: a package entry point outside its package's program is
\* fatal; an entry file given by path that no program holds is skipped, and
\* convert() returns the project Converter.convert builds from the entry
\* points that remain, unless one of their programs has a diagnostic.
C2_UnlocatablePathIsSkipped ==
    /\ UnbuiltPackageReached => (result = None /\ converterCalls = <<>>)
    /\ (UnlocatedPath /\ ~SomeEntryProgramHasErrors)
           => /\ result # None
              /\ Len(converterCalls) = 1
              /\ PathsOf(converterCalls[1].entrypoints) = SelectSeq(ExpandedFiles, Located)
              /\ result = Project(1, converterCalls[1].entrypoints)
              /\ HasLog("Unable to locate entry point")

\* C2 witness: one entry file is held by no program, another is held by
\* an error free program, and convert() returned a project.
C2_Witness ==
    /\ UnlocatedPath
    /\ \E i \in 1..Len(ExpandedFiles) : Located(ExpandedFiles[i])
    /\ result # None

\* The warnings getEntrypointsForPaths logs for files no program holds.
UnlocatedWarnings(entries) ==
    SelectSeq(entries, LAMBDA e : e.msg = "Unable to locate entry point")

\* C3: getEntrypointsForPaths logs one warning for each expanded input file
\* that no program holds and makes no entry point of it; every file that
\* some program holds yields its entry point, in input order.
C3_UnlocatedWarnsAndContinues ==
    PathsConsulted =>
        LET got == getEntrypointsForPaths(opts, world, opts.entryPoints)
            warned == UnlocatedWarnings(got.log)
        IN  /\ PathsOf(got.entrypoints) = SelectSeq(ExpandedFiles, Located)
            /\ [i \in 1..Len(warned) |-> warned[i].arg]
                   = SelectSeq(ExpandedFiles, LAMBDA f : ~Located(f))
            /\ \A i \in 1..Len(got.entrypoints) :
                   /\ got.entrypoints[i].program = HolderOf(got.entrypoints[i].path)
                   /\ got.entrypoints[i].sourceFile # None
            /\ ~SomeEntryProgramHasErrors =>
                   /\ Len(converterCalls) = 1
                   /\ converterCalls[1].entrypoints = got.entrypoints
                   /\ UnlocatedWarnings(log) = warned

\* C3 witness: a file that no program holds comes before a file that a
\* program holds, and the later file is an entry point of the conversion.
C3_Witness ==
    /\ PathsConsulted
    /\ \E i, j \in 1..Len(ExpandedFiles) :
        /\ i < j /\ ~Located(ExpandedFiles[i]) /\ Located(ExpandedFiles[j])
        /\ Len(converterCalls) = 1
        /\ \E k \in 1..Len(converterCalls[1].entrypoints) :
               converterCalls[1].entrypoints[k].path = ExpandedFiles[j]

\* C4: convert() returns undefined only when getEntrypointsForPackages
\* returned undefined or a program of a discovered entry point has a
\* pre-emit diagnostic; in every other case, whatever warnings were logged,
\* it returns what its one Converter.convert call returned.
C4_UndefinedOnlyWhenFatal ==
    Converted =>
        IF SomePackageFails \/ SomeEntryProgramHasErrors
        THEN result = None
        ELSE /\ Len(converterCalls) = 1
             /\ result = Project(1, converterCalls[1].entrypoints)
             /\ result # None

\* C4 witness: the four warnings (unsupported version, no compiler options,
\* nonexistent entry point, unlocatable entry point) were all logged and
\* convert() returned a project.
C4_Witness ==
    /\ Converted
    /\ HasLog("unsupported TypeScript version")
    /\ HasLog("No compiler options set")
    /\ HasLog("entry point does not exist")
    /\ HasLog("Unable to locate entry point")
    /\ result # None

\* C7: convert() calls Converter.convert at most once, and when it does, with
\* the complete list of discovered entry points in discovery order; the
\* project it returns is the product of that one call.
C7_OneCallWithAllEntrypoints ==
    Converted =>
        /\ Len(converterCalls) <= 1
        /\ (result = None) = (converterCalls = <<>>)
        /\ Len(converterCalls) = 1 =>
               /\ PathsOf(converterCalls[1].entrypoints) = DiscoveredPaths
               /\ {converterCalls[1].entrypoints[i].program :
                       i \in 1..Len(converterCalls[1].entrypoints)} = EntryPrograms
               /\ result = Project(1, converterCalls[1].entrypoints)

\* C7 witness: entry points of two different programs went to one
\* Converter.convert call.
C7_Witness ==
    /\ Converted
    /\ Len(converterCalls) = 1
    /\ \E i, j \in 1..Len(converterCalls[1].entrypoints) :
           converterCalls[1].entrypoints[i].program.id
               # converterCalls[1].entrypoints[j].program.id

\* C8: getEntrypointsForPackages returns undefined as soon as one expanded
\* package fails (no manifest, no TS entry point, no tsconfig, an
\* unrecoverable tsconfig error, or an entry point outside the created
\* program), however many packages before it succeeded; otherwise it returns
\* one entry point for each package that is not ignored, in expansion order.
C8_PackagesAllOrNothing ==
    Converted =>
        LET got == getEntrypointsForPackages(world.packages) IN
        IF SomePackageFails
        THEN ~got.ok /\ got.results = <<>> /\ result = None /\ converterCalls = <<>>
        ELSE /\ got.ok
             /\ Len(got.results) = Len(KeptPackages)
             /\ \A i \in 1..Len(KeptPackages) :
                    /\ got.results[i].path = PackageEntryPoint(KeptPackages[i])
                    /\ got.results[i].displayName = KeptPackages[i].name
             /\ (KeptPackages # <<>> /\ ~SomeEntryProgramHasErrors) =>
                    (Len(converterCalls) = 1 /\ converterCalls[1].entrypoints = got.results)

\* C8 witness: the first package succeeded, a later one failed, and nothing
\* was returned.
C8_Witness ==
    /\ Converted
    /\ Len(world.packages) >= 2
    /\ ~PackageFails(world.packages[1]) /\ world.packages[1].entry = "file"
    /\ SomePackageFails
    /\ result = None

\* C8, second case: an ignored package came before a package that was kept.
C8_IgnoredWitness ==
    /\ Converted
    /\ Len(world.packages) >= 2
    /\ world.packages[1].entry = "ignore"
    /\ ~SomePackageFails
    /\ Len(converterCalls) = 1 /\ Len(converterCalls[1].entrypoints) = 1

\* ================================================== claims, watch mode
\* The expanded input files of the cycle that made the call.
CycleFiles(call) == expandInputFiles(opts, call.fs, opts.entryPoints).files

InProgram(call, file) == file \in call.program.files

\* C5: every project handed to the success callback is the product of one
\* Converter.convert call over one program: the n-th success call gets the
\* project of the n-th conversion, whose entry points all belong to that
\* conversion's program, and no two conversions share a program.  A success
\* call in flight is not disturbed by a newer program.
C5_OneProjectOneProgram ==
    /\ Len(successCalls) = Len(converterCalls)
    /\ \A n \in 1..Len(successCalls) :
        /\ successCalls[n].project = Project(n, converterCalls[n].entrypoints)
        /\ \A k \in 1..Len(converterCalls[n].entrypoints) :
               converterCalls[n].entrypoints[k].program = converterCalls[n].program
        /\ \A m \in 1..(n - 1) :
               converterCalls[m].program.id < converterCalls[n].program.id
        /\ (n < Len(successCalls)) => successCalls[n].promise # "pending"

\* C5 witness: the first rebuild was delivered, the second is in flight with
\* entry points of its own, and a newer error free program is waiting.
C5_Witness ==
    /\ Len(successCalls) = 2
    /\ successCalls[1].promise = "fulfilled"
    /\ successCalls[2].promise = "pending"
    /\ converterCalls[1].entrypoints # <<>>
    /\ converterCalls[2].entrypoints # <<>>
    /\ currentProgram # None

\* C6: every watch mode conversion is a run from scratch: its entry points
\* are the files of the expansion over the file system of that cycle that
\* the cycle's program holds, each with that one program, and the program
\* was created after every program converted before.
C6_EveryCycleFromScratch ==
    \A n \in 1..Len(converterCalls) :
        LET call == converterCalls[n] IN
        /\ PathsOf(call.entrypoints)
               = SelectSeq(CycleFiles(call), LAMBDA f : InProgram(call, f))
        /\ \A k \in 1..Len(call.entrypoints) :
               /\ call.entrypoints[k].program = call.program
               /\ call.entrypoints[k].sourceFile.program = call.program.id
        /\ call.program = programsSeen[call.program.id]
        /\ \A m \in 1..(n - 1) :
               /\ converterCalls[m].program.id < call.program.id
               /\ successCalls[m].project # successCalls[n].project

\* C6 witness: two conversions over different file systems, the second with
\* an entry point the first expansion did not have.
C6_Witness ==
    /\ Len(converterCalls) >= 2
    /\ converterCalls[1].fs # converterCalls[2].fs
    /\ \E k \in 1..Len(converterCalls[2].entrypoints) :
           \A j \in 1..Len(CycleFiles(converterCalls[1])) :
               CycleFiles(converterCalls[1])[j] # converterCalls[2].entrypoints[k].path

\* C9: with no file names (a solution style tsconfig) or with the packages
\* option set, convertAndWatch logs an error and returns: no watch program
\* is created, and neither Converter.convert nor the success callback is
\* ever called.
C9_WatchRefused ==
    (pc # "start" /\ (opts.fileNames = <<>> \/ opts.packages # <<>>))
        => /\ pc = "watchRefused"
           /\ log[Len(log)].level = "error"
           /\ programsSeen = <<>>
           /\ origCalls = <<>>
    /\ resolver = None
           /\ converterCalls = <<>>
           /\ successCalls = <<>>

\* C9 witness: convertAndWatch returned on the packages option, the
\* tsconfig having file names.
C9_Witness ==
    /\ pc = "watchRefused"
    /\ opts.fileNames # <<>>
    /\ opts.packages # <<>>

RECURSIVE UnlocatedOfCalls(_)

\* The files the cycles' programs did not hold, cycle after cycle.
UnlocatedOfCalls(calls) ==
    IF calls = <<>> THEN <<>>
    ELSE SelectSeq(CycleFiles(Head(calls)), LAMBDA f : ~InProgram(Head(calls), f))
         \o UnlocatedOfCalls(Tail(calls))

WatchUnlocatedWarnings ==
    SelectSeq(log, LAMBDA e : e.msg = "Unable to locate entry point within the program")

\* C10: in watch mode an entry file that the cycle's program does not hold
\* is warned about, once, and skipped; Converter.convert and the success
\* callback are called with the entry points that remain, also when none
\* remains: no error free program is left waiting while no success call is
\* in flight.
C10_WatchUnlocatedSkipped ==
    /\ \A n \in 1..Len(converterCalls) :
        /\ PathsOf(converterCalls[n].entrypoints)
               = SelectSeq(CycleFiles(converterCalls[n]),
                           LAMBDA f : InProgram(converterCalls[n], f))
        /\ n <= Len(successCalls)
        /\ successCalls[n].project.entrypoints = converterCalls[n].entrypoints
    /\ [i \in 1..Len(WatchUnlocatedWarnings) |-> WatchUnlocatedWarnings[i].arg]
           = UnlocatedOfCalls(converterCalls)
    /\ currentProgram # None => ~successFinished
    /\ (pc = "watching" /\ programsSeen[1].ndiag = 0) => Len(converterCalls) >= 1

\* C10 witness: a cycle whose program held none of the expanded files: the
\* files were warned about and the success callback got a project without
\* entry points.
C10_Witness ==
    \E n \in 1..Len(converterCalls) :
        /\ CycleFiles(converterCalls[n]) # <<>>
        /\ converterCalls[n].entrypoints = <<>>
        /\ successCalls[n].project.entrypoints = <<>>
        /\ WatchUnlocatedWarnings # <<>>

\* ===================================================== expandInputFiles
\* A file that no extension filter accepts, given as an input.
PM == << <<"README", ".md">> >>

ExpandInputs == {PSrc, PSub, PX, PM}

\* The sets of paths the exclude patterns match.
ExcludeChoices == {{}, {PSub, PX}, {PA}, {PSrc}, {PC, PB}}

ExpandOptions ==
    {Options(f, <<>>, e, x, <<>>) :
        f \in {g \in FlagProfiles : g.versionSupported},
        e \in SeqsUpTo(ExpandInputs, MaxEntryPoints),
        x \in ExcludeChoices}

ExpandFs ==
    {fs \in {[exists |-> e, noStat |-> n] :
                e \in {{}, {PX, PM}, {PSrc, PA, PB, PM}, AllPaths \ {PX},
                       AllPaths \cup {PM}},
                n \in {{}, {PA}, {PSub}}} :
        fs.noStat \subseteq fs.exists}

InitExpand ==
    /\ pc = "start"
    /\ opts \in ExpandOptions
    /\ world \in ExpandFs
    /\ log = <<>>
    /\ converterCalls = <<>>
    /\ emitted = <<>>
    /\ result = None
    /\ successFinished = TRUE
    /\ currentProgram = None
    /\ programsSeen = <<>>
    /\ successCalls = <<>>
    /\ origCalls = <<>>
    /\ resolver = None

\* One call of Application.expandInputFiles(inputFiles).
ExpandInputFiles ==
    /\ pc = "start"
    /\ LET out == expandInputFiles(opts, world, opts.entryPoints) IN
        /\ result' = [files |-> out.files]
        /\ log' = log \o out.log
    /\ pc' = "expanded"
    /\ UNCHANGED <<resolver, opts, world, converterCalls, emitted, successFinished,
                   currentProgram, programsSeen, successCalls, origCalls>>

NextExpand == ExpandInputFiles

SpecExpand == InitExpand /\ [][NextExpand]_vars

\* f lies below the directory d.
Under(d, f) == Len(f) > Len(d) /\ SubSeq(f, 1, Len(d)) = d

\* f is found by listing the input directory a: every path from below a
\* down to f exists, can be stat'ed and matches no exclude pattern.
ReachedFrom(a, f) ==
    /\ existsSync(world, a)
    /\ a \in Dirs
    /\ Under(a, f)
    /\ \A k \in (Len(a) + 1)..Len(f) :
        LET p == SubSeq(f, 1, k) IN
        existsSync(world, p) /\ p \notin opts.exclude

InputSet == {opts.entryPoints[i] : i \in 1..Len(opts.entryPoints)}

ExpandedSet == {result.files[i] : i \in 1..Len(result.files)}

\* C11: the exclude patterns drop only what the listing of a directory
\* finds, never an input itself: an existing supported file given as an
\* input is in the result whether or not a pattern matches it; every other
\* file of the result is reached from an input directory through paths no
\* pattern matches, so nothing below an excluded directory is found by
\* listing; and every supported file so reached is in the result.
C11_ExcludeOnlyFiltersDiscovered ==
    pc = "expanded" =>
        /\ \A a \in InputSet :
            existsSync(world, a) /\ a \notin Dirs /\ supportedFile(opts, a)
                => a \in ExpandedSet
        /\ \A f \in ExpandedSet :
            f \in InputSet \/ \E a \in InputSet : ReachedFrom(a, f)
        /\ \A f \in AllPaths \ Dirs :
            (supportedFile(opts, f) /\ \E a \in InputSet : ReachedFrom(a, f))
                => f \in ExpandedSet

\* An excluded input file is kept while, in the same call, a supported file
\* below an excluded directory of a listed input directory is left out.
C11_Witness ==
    /\ pc = "expanded"
    /\ \E a \in InputSet \cap opts.exclude : a \in ExpandedSet
    /\ \E d \in (opts.exclude \cap Dirs) \ InputSet :
        /\ Parent(d) \in InputSet
        /\ existsSync(world, d)
        /\ \E f \in world.exists \ Dirs :
            Under(d, f) /\ supportedFile(opts, f) /\ f \notin ExpandedSet

\* What one input contributes: itself when it is a supported file, the
\* supported files its listing reaches when it is a directory, in listing
\* order.
InputListing(a) ==
    IF ~existsSync(world, a) THEN <<>>
    ELSE IF a \in Dirs
         THEN SelectSeq(ReaddirOrder, LAMBDA f : /\ f \notin Dirs
                                                 /\ supportedFile(opts, f)
                                                 /\ ReachedFrom(a, f))
    ELSE IF supportedFile(opts, a) THEN <<a>>
    ELSE <<>>

RECURSIVE InputListings(_)
InputListings(inputs) ==
    IF inputs = <<>> THEN <<>>
    ELSE InputListing(Head(inputs)) \o InputListings(Tail(inputs))

MissingInputs == SelectSeq(opts.entryPoints, LAMBDA a : ~existsSync(world, a))

\* C12: an input that does not exist costs one warning and nothing else:
\* the warnings are those of the missing inputs, one each, in input order;
\* the result holds only existing non-directory files with a supported
\* extension (.ts and .tsx, .js and .jsx only with allowJs), and is the
\* inputs' contributions in input order, each directory's in listing order.
C12_ExpandedFilesInOrder ==
    pc = "expanded" =>
        /\ log = [k \in 1..Len(MissingInputs) |->
                      Warn("entry point does not exist", MissingInputs[k])]
        /\ \A f \in ExpandedSet :
            /\ existsSync(world, f)
            /\ f \notin Dirs
            /\ Last(Last(f)) \in {".ts", ".tsx", ".js", ".jsx"}
            /\ Last(Last(f)) \in {".js", ".jsx"} => opts.allowJs
        /\ result.files = InputListings(opts.entryPoints)

\* A missing input is followed by a directory whose listing is expanded,
\* an unsupported input file is dropped.
C12_Witness ==
    /\ pc = "expanded"
    /\ Len(log) = 1
    /\ \E i, j \in 1..Len(opts.entryPoints) :
        /\ i < j
        /\ ~existsSync(world, opts.entryPoints[i])
        /\ opts.entryPoints[j] \in Dirs
        /\ Len(InputListing(opts.entryPoints[j])) >= 2
    /\ Len(result.files) >= 2
    /\ PB \in world.exists /\ PB \notin ExpandedSet

\* ============================================= claims, watch scheduling
\* Watch mode in which every promise that success() returns fulfils, started
\* with options convertAndWatch accepts and one file as the entry point.
WatchFairOptions ==
    {o \in WatchOptions :
        WatchRefusal(o) = "none" /\ o.versionSupported /\ o.entryPoints = <<PX>>}

InitWatchFair ==
    /\ pc = "start"
    /\ opts \in WatchFairOptions
    /\ world = None
    /\ log = <<>>
    /\ converterCalls = <<>>
    /\ emitted = <<>>
    /\ result = None
    /\ successFinished = TRUE
    /\ currentProgram = None
    /\ programsSeen = <<>>
    /\ successCalls = <<>>
    /\ origCalls = <<>>
    /\ resolver = None

NextWatchFair ==
    \/ ConvertAndWatch
    \/ AfterProgramCreate
    \/ FilesChanged
    \/ SuccessFulfilled

SpecWatchFair == InitWatchFair /\ [][NextWatchFair]_vars /\ WF_vars(SuccessFulfilled)

ConvertedPrograms == [n \in 1..Len(converterCalls) |-> converterCalls[n].program]

ErrorFree(programs) == SelectSeq(programs, LAMBDA p : p.ndiag = 0)

\* C17: at most one success callback is outstanding: every success call
\* but the last has fulfilled and each conversion was handed to one success
\* call, so between a success(project) call and its fulfilment there was
\* no further Converter.convert and no further success call; while the
\* last promise is unfulfilled successFinished is false.
C17_OneSuccessOutstanding ==
    /\ Len(converterCalls) = Len(successCalls)
    /\ \A i \in 1..Len(successCalls) :
        /\ i < Len(successCalls) => successCalls[i].promise = "fulfilled"
        /\ successCalls[i].promise # "fulfilled" => ~successFinished

\* Two error-free programs were created while the one success call was
\* pending.
C17_Witness ==
    /\ Len(successCalls) = 1
    /\ successCalls[1].promise = "pending"
    /\ Len(programsSeen) >= 3
    /\ converterCalls[1].program = programsSeen[1]
    /\ programsSeen[2].ndiag = 0
    /\ programsSeen[3].ndiag = 0

PendingFulfilledInStep ==
    \E i \in 1..Len(successCalls) :
        /\ successCalls[i].promise = "pending"
        /\ successCalls'[i].promise = "fulfilled"

LastErrorFreeHandled ==
    LET good == ErrorFree(programsSeen) IN
    good # <<>> =>
        \E n \in 1..Len(converterCalls) :
            /\ converterCalls[n].program = good[Len(good)]
            /\ n <= Len(successCalls)
            /\ successCalls[n].project = Project(n, converterCalls[n].entrypoints)

\* C18: the step in which a success promise fulfils while an error-free
\* program is pending starts the conversion of that program; and, every
\* success promise fulfilling, from some point on the last error-free
\* program reported has been converted and handed to success.
C18_PendingProgramConverted ==
    /\ [][(PendingFulfilledInStep /\ currentProgram # None) =>
            /\ Len(converterCalls') = Len(converterCalls) + 1
            /\ converterCalls'[Len(converterCalls')].program = currentProgram
            /\ Len(successCalls') = Len(successCalls) + 1]_vars
    /\ <>[]LastErrorFreeHandled

\* A program was converted on a fulfilment, not on its creation: the host
\* had created a later program by then.
C18_Witness ==
    /\ Len(converterCalls) = 2
    /\ Len(successCalls) = 2
    /\ successCalls[1].promise = "fulfilled"
    /\ converterCalls[2].seen > converterCalls[2].program.id

\* C19: an error-free program is converted at most once and in order of
\* creation; the program converted is the last error-free one created by
\* then, the earlier ones being overwritten; the pending program, if any,
\* is one not converted yet (currentProgram is cleared by the conversion);
\* and there are no more conversions than error-free programs.
C19_ConvertedAtMostOnce ==
    /\ \A m, n \in 1..Len(converterCalls) :
        m < n => converterCalls[m].program.id < converterCalls[n].program.id
    /\ \A n \in 1..Len(converterCalls) :
        LET good == ErrorFree(SubSeq(programsSeen, 1, converterCalls[n].seen)) IN
        /\ good # <<>>
        /\ converterCalls[n].program = good[Len(good)]
    /\ currentProgram # None =>
        /\ \A n \in 1..Len(converterCalls) : converterCalls[n].program # currentProgram
        /\ currentProgram = Last(ErrorFree(programsSeen))
    /\ Len(converterCalls) <= Len(ErrorFree(programsSeen))

\* Of three error-free programs the second was overwritten while the first
\* success call was pending, and the fulfilment of the second success call
\* found no program to convert.
C19_Witness ==
    /\ Len(programsSeen) = 3
    /\ Len(ErrorFree(programsSeen)) = 3
    /\ Len(converterCalls) = 2
    /\ converterCalls[1].program = programsSeen[1]
    /\ converterCalls[2].program = programsSeen[3]
    /\ successCalls[2].promise = "fulfilled"
    /\ currentProgram = None

\* C20: the program a watch conversion converts is the last program the
\* host has created by then, with or without diagnostics.
C20_ConvertsMostRecentProgram ==
    \A n \in 1..Len(converterCalls) :
        converterCalls[n].program = programsSeen[converterCalls[n].seen]

\* ======================================================= reflection ids
\* The reflections one Converter.convert call allocates: the project and a
\* module for each entry point.
ReflectionsCreated(call) == 1 + Len(call.entrypoints)

RECURSIVE ReflectionIdAfter(_)
\* The id counter of lib/models/reflections/abstract after the calls: it
\* counts on from call to call, only resetReflectionID() sets it back, and
\* neither convert() nor runSuccess() calls that.
ReflectionIdAfter(calls) ==
    IF calls = <<>> THEN 0
    ELSE ReflectionIdAfter(SubSeq(calls, 1, Len(calls) - 1))
            + ReflectionsCreated(calls[Len(calls)])

\* The ids given to the reflections of the n-th conversion.
ConvertedIds(n) ==
    LET first == ReflectionIdAfter(SubSeq(converterCalls, 1, n - 1)) IN
    first..(first + ReflectionsCreated(converterCalls[n]) - 1)

\* Two conversions were given the same input: the same entry point paths
\* over programs of the same files.
SameInput(m, n) ==
    /\ PathsOf(converterCalls[m].entrypoints) = PathsOf(converterCalls[n].entrypoints)
    /\ converterCalls[m].program.files = converterCalls[n].program.files
    /\ converterCalls[m].program.ndiag = converterCalls[n].program.ndiag

\* C13: two conversions of the same input by one Application, as two
\* watch rebuilds of an unchanged program are, give their reflections the
\* same ids.
C13_SameInputSameIds ==
    \A m, n \in 1..Len(converterCalls) :
        SameInput(m, n) => ConvertedIds(m) = ConvertedIds(n)

\* ==================================================== ReferenceResolver
\* The post-pass of the converter and the serializer work on the project's
\* reflections: the types, the members they declare, and the extends and
\* implements edges between the types.
MaxTypes == 2

TypeIds == 1..MaxTypes

\* The project reflection's own id.
ProjectId == 0

ClassOrInterface(t) == IF t = 1 THEN "Interface" ELSE "Class"

\* The names of the members a type declares, in declaration order.
OwnNames(t) ==
    CASE t = 1 -> <<"foo">>
      [] t = 2 -> <<"foo", "bar">>
      [] OTHER -> <<"baz">>

RECURSIVE FirstMemberId(_)
\* Ids are given in allocation order: the types, then each type's members.
FirstMemberId(t) ==
    IF t = 1 THEN MaxTypes + 1
    ELSE FirstMemberId(t - 1) + Len(OwnNames(t - 1))

Declared(t) ==
    [k \in 1..Len(OwnNames(t)) |->
        [id |-> FirstMemberId(t) + k - 1, name |-> OwnNames(t)[k]]]

\* The extends/implements targets of a type, an arbitrary graph over ids.
ParentsOf(S) == SelectSeq([i \in 1..MaxTypes |-> i], LAMBDA p : p \in S)

InheritanceGraphs == [TypeIds -> SUBSET TypeIds]

\* A class implements an interface; every other edge is an extends edge.
EdgeKind(t, p) ==
    IF ClassOrInterface(t) = "Class" /\ ClassOrInterface(p) = "Interface"
    THEN "implements" ELSE "extends"

\* The project as the converter leaves it to the post-pass.
ConvertedProject(g) ==
    [phase |-> "resolving",
     pass |-> 1,
     parents |-> [t \in TypeIds |-> ParentsOf(g[t])],
     refl |-> [t \in TypeIds |->
                 [children |-> Declared(t), extendedBy |-> <<>>, implementedBy |-> <<>>]],
     next |-> 1,
     stack |-> <<>>,
     nextId |-> FirstMemberId(MaxTypes + 1),
     first |-> None,
     document |-> None]

\* A guard that finds no type on the stack.
neverOnStack(stack, id) == FALSE

\* Cycle guard: the type id is already on the current resolution stack.
onResolutionStack(stack, id) == \E i \in 1..Len(stack) : stack[i].type = id

\* The subtype declares a member of that name itself.
overridden(children, m) ==
    \E i \in 1..Len(children) :
        children[i].name = m.name /\ "inheritedFrom" \notin DOMAIN children[i]

\* The type a member comes from: the type that declares it.
sourceOf(m, p) == IF "inheritedFrom" \in DOMAIN m THEN m.inheritedFrom ELSE p

\* A guard that never finds a copy.
neverInherited(children, name, source) == FALSE

\* The guard on (member name, source id): the copy is there already.
alreadyInherited(children, name, source) ==
    \E i \in 1..Len(children) :
        /\ children[i].name = name
        /\ "inheritedFrom" \in DOMAIN children[i]
        /\ children[i].inheritedFrom = source

RECURSIVE copyMembers(_, _, _, _)
\* Copies the members of p not overridden and not yet copied into children,
\* each copy a new reflection tagged with the id of its source.
copyMembers(children, members, p, nextId) ==
    IF members = <<>> THEN [children |-> children, nextId |-> nextId]
    ELSE LET m == Head(members) IN
         IF overridden(children, m) \/ alreadyInherited(children, m.name, sourceOf(m, p))
         THEN copyMembers(children, Tail(members), p, nextId)
         ELSE copyMembers(Append(children,
                              [id |-> nextId, name |-> m.name,
                               inheritedFrom |-> sourceOf(m, p)]),
                          Tail(members), p, nextId + 1)

addBackReference(ids, id) ==
    IF \E i \in 1..Len(ids) : ids[i] = id THEN ids ELSE Append(ids, id)

\* Flattens the edge from the type t to its resolved target p.
inherit(r, t, p) ==
    LET copied == copyMembers(r.refl[t].children, r.refl[p].children, p, r.nextId)
        kept == [r.refl EXCEPT ![t].children = copied.children]
    IN  [r EXCEPT
            !.nextId = copied.nextId,
            !.refl = IF EdgeKind(t, p) = "extends"
                     THEN [kept EXCEPT ![p].extendedBy = addBackReference(@, t)]
                     ELSE [kept EXCEPT ![p].implementedBy = addBackReference(@, t)]]

\* ----------------------------------------------------------- Serializer
\* Owned relations become nested objects, non-owning ones bare ids.
memberToObject(c) ==
    IF "inheritedFrom" \in DOMAIN c
    THEN [id |-> c.id, name |-> c.name, kindString |-> "Property",
          inheritedFrom |-> c.inheritedFrom]
    ELSE [id |-> c.id, name |-> c.name, kindString |-> "Property"]

typeToObject(r, t) ==
    [id |-> t,
     kindString |-> ClassOrInterface(t),
     children |-> [i \in 1..Len(r.refl[t].children) |->
                      memberToObject(r.refl[t].children[i])],
     extendedTypes |-> SelectSeq(r.parents[t], LAMBDA p : EdgeKind(t, p) = "extends"),
     implementedTypes |-> SelectSeq(r.parents[t], LAMBDA p : EdgeKind(t, p) = "implements"),
     extendedBy |-> r.refl[t].extendedBy,
     implementedBy |-> r.refl[t].implementedBy]

\* A serializer that leaves the interfaces out of the document.
projectToObjectClassesOnly(r) ==
    [id |-> ProjectId,
     kindString |-> "Project",
     children |-> SelectSeq([t \in 1..MaxTypes |-> typeToObject(r, t)],
                            LAMBDA o : o.kindString = "Class")]

\* serializer.projectToObject(project): the document generateJson writes.
projectToObject(r) ==
    [id |-> ProjectId,
     kindString |-> "Project",
     children |-> [t \in 1..MaxTypes |-> typeToObject(r, t)]]

\* ------------------------------------------------ the post-pass, by steps
MaxStack == MaxTypes + 1

application == <<pc, opts, world, log, converterCalls, emitted, result,
                 successFinished, currentProgram, programsSeen, successCalls, origCalls>>

InitResolve ==
    /\ pc = "start"
    /\ opts = None
    /\ world = None
    /\ log = <<>>
    /\ converterCalls = <<>>
    /\ emitted = <<>>
    /\ result = None
    /\ successFinished = TRUE
    /\ currentProgram = None
    /\ programsSeen = <<>>
    /\ successCalls = <<>>
    /\ origCalls = <<>>
    /\ resolver \in {ConvertedProject(g) : g \in InheritanceGraphs}

\* The pass takes up the next type of the project.
ResolveNextType ==
    /\ resolver.phase = "resolving"
    /\ resolver.stack = <<>>
    /\ resolver.next <= MaxTypes
    /\ resolver' = [resolver EXCEPT !.stack = <<[type |-> resolver.next, edge |-> 1]>>,
                                    !.next = @ + 1]
    /\ UNCHANGED application

\* The target of the current edge is not on the stack: it is resolved first.
FollowEdge ==
    /\ resolver.phase = "resolving"
    /\ resolver.stack # <<>>
    /\ LET f == Last(resolver.stack)
           targets == resolver.parents[f.type]
       IN  /\ f.edge <= Len(targets)
           /\ ~onResolutionStack(resolver.stack, targets[f.edge])
           /\ Len(resolver.stack) < MaxStack
           /\ resolver' = [resolver EXCEPT
                  !.stack = Append(@, [type |-> targets[f.edge], edge |-> 1])]
    /\ UNCHANGED application

\* The target of the current edge is on the stack: the edge is left alone.
SkipEdge ==
    /\ resolver.phase = "resolving"
    /\ resolver.stack # <<>>
    /\ LET f == Last(resolver.stack)
           targets == resolver.parents[f.type]
       IN  /\ f.edge <= Len(targets)
           /\ onResolutionStack(resolver.stack, targets[f.edge])
           /\ resolver' = [resolver EXCEPT !.stack[Len(resolver.stack)].edge = @ + 1]
    /\ UNCHANGED application

\* All edges of the type on top are done: the type below inherits from it.
FinishType ==
    /\ resolver.phase = "resolving"
    /\ resolver.stack # <<>>
    /\ LET n == Len(resolver.stack)
           f == resolver.stack[n]
       IN  /\ f.edge > Len(resolver.parents[f.type])
           /\ IF n = 1
              THEN resolver' = [resolver EXCEPT !.stack = <<>>]
              ELSE LET g == resolver.stack[n - 1]
                       r == inherit(resolver, g.type, f.type)
                   IN  resolver' = [r EXCEPT
                           !.stack = Append(SubSeq(resolver.stack, 1, n - 2),
                                            [g EXCEPT !.edge = @ + 1])]
    /\ UNCHANGED application

\* resolve-end: every type of the project was taken up.
EndPass ==
    /\ resolver.phase = "resolving"
    /\ resolver.stack = <<>>
    /\ resolver.next > MaxTypes
    /\ resolver' = [resolver EXCEPT
           !.phase = "resolved",
           !.first = IF resolver.pass = 1
                     THEN [refl |-> resolver.refl, nextId |-> resolver.nextId]
                     ELSE @]
    /\ UNCHANGED application

\* The pass is run a second time on the resolved project.
ResolveAgain ==
    /\ resolver.phase = "resolved"
    /\ resolver.pass = 1
    /\ resolver' = [resolver EXCEPT !.phase = "resolving", !.pass = 2, !.next = 1]
    /\ UNCHANGED application

\* Application.generateJson(project, out).
GenerateJson ==
    /\ resolver.phase = "resolved"
    /\ resolver' = [resolver EXCEPT !.phase = "serialized",
                                    !.document = projectToObject(resolver)]
    /\ UNCHANGED application

ResolveStep ==
    \/ ResolveNextType
    \/ FollowEdge
    \/ SkipEdge
    \/ FinishType
    \/ EndPass

NextResolve ==
    \/ ResolveStep
    \/ ResolveAgain
    \/ GenerateJson

SpecResolve == InitResolve /\ [][NextResolve]_vars

\* The pass is synchronous code: once begun it runs to its end.
SpecResolveFair == SpecResolve /\ WF_vars(ResolveStep)

\* ============================================ claims, ReferenceResolver
Range(f) == {f[i] : i \in DOMAIN f}

InheritedChildren(t) ==
    SelectSeq(resolver.refl[t].children, LAMBDA c : "inheritedFrom" \in DOMAIN c)

RECURSIVE AncestorsWithin(_, _)
\* The types reached from the set S over at most k further edges.
AncestorsWithin(S, k) ==
    IF k = 0 THEN S
    ELSE AncestorsWithin(S \cup UNION {Range(resolver.parents[u]) : u \in S}, k - 1)

Ancestors(t) == AncestorsWithin(Range(resolver.parents[t]), MaxTypes)

\* A cycle of edges can be reached from t.
ReachesCycle(t) == \E u \in Ancestors(t) \cup {t} : u \in Ancestors(u)

ChildNames(t) == {c.name : c \in Range(resolver.refl[t].children)}

NoTypeTwiceOnStack ==
    \A i, j \in 1..Len(resolver.stack) :
        resolver.stack[i].type = resolver.stack[j].type => i = j

\* C15: the resolution of every extends/implements graph ends: no type is
\* on the resolution stack twice, every pass that begins reaches its end,
\* and at the end a type has the names it declares and names its ancestors
\* declare, all of them when no cycle can be reached from it, and no type
\* has inherited from itself.
C15_ResolutionTerminates ==
    /\ [](NoTypeTwiceOnStack /\ Len(resolver.stack) <= MaxTypes)
    /\ []<>(resolver.phase # "resolving")
    /\ [](resolver.phase = "resolved" =>
            \A t \in TypeIds :
                LET inheritable == UNION {Range(OwnNames(u)) : u \in Ancestors(t)} IN
                /\ Range(OwnNames(t)) \subseteq ChildNames(t)
                /\ ChildNames(t) \subseteq Range(OwnNames(t)) \cup inheritable
                /\ ~ReachesCycle(t) => inheritable \subseteq ChildNames(t)
                /\ \A c \in Range(InheritedChildren(t)) : c.inheritedFrom # t
                /\ t \notin Range(resolver.refl[t].extendedBy))

\* A pass has ended on a graph in which one type extends itself and another
\* extends itself through a second type.
C15_Witness ==
    /\ resolver.phase = "resolved"
    /\ \E t \in TypeIds : t \in Range(resolver.parents[t])
    /\ \E t \in TypeIds : t \in Ancestors(t) /\ t \notin Range(resolver.parents[t])
    /\ \E t \in TypeIds : InheritedChildren(t) # <<>>

RECURSIVE Flatten(_)
Flatten(seqs) == IF seqs = <<>> THEN <<>> ELSE Head(seqs) \o Flatten(Tail(seqs))

\* The id fields of the objects of the document, in document order.
EmittedIds(doc) ==
    <<doc.id>> \o Flatten([i \in 1..Len(doc.children) |->
        <<doc.children[i].id>> \o
            [k \in 1..Len(doc.children[i].children) |-> doc.children[i].children[k].id]])

\* What the non-owning fields of the document hold.
NonOwningValues(doc) ==
    UNION {Range(ty.extendedBy) \cup Range(ty.implementedBy)
            \cup Range(ty.extendedTypes) \cup Range(ty.implementedTypes)
            \cup {m.inheritedFrom : m \in {c \in Range(ty.children) :
                                             "inheritedFrom" \in DOMAIN c}} :
           ty \in Range(doc.children)}

\* C16: in the document the serializer makes of a project every non-owning
\* field holds bare numbers, each the id of an object of the document, and
\* every reflection is emitted once, under its owner.
C16_SerializationClosure ==
    resolver.phase = "serialized" =>
        LET doc == resolver.document
            ids == EmittedIds(doc)
        IN  /\ NonOwningValues(doc) \subseteq Nat
            /\ NonOwningValues(doc) \subseteq Range(ids)
            /\ \A i, j \in 1..Len(ids) : ids[i] = ids[j] => i = j

\* The document of a project with inherited members and back references
\* of both kinds.
C16_Witness ==
    /\ resolver.phase = "serialized"
    /\ \E ty \in Range(resolver.document.children) : ty.extendedBy # <<>>
    /\ \E ty \in Range(resolver.document.children) : ty.implementedBy # <<>>
    /\ \E ty \in Range(resolver.document.children) :
        \E c \in Range(ty.children) : "inheritedFrom" \in DOMAIN c

\* ============================================ claims, watch mode hooks
SomeRejected == \E i \in 1..Len(successCalls) : successCalls[i].promise = "rejected"

\* C21: successFinished turns true only in the step in which a pending
\* success promise fulfils; while the promise of the last success call is
\* pending or rejected successFinished is false, and once a promise has
\* rejected no conversion and no success call is made any more, whatever
\* programs the host creates.
C21_OnlyFulfilmentResets ==
    /\ [][(~successFinished /\ successFinished') => PendingFulfilledInStep]_vars
    /\ [](\A i \in 1..Len(successCalls) :
            successCalls[i].promise # "fulfilled" =>
                ~successFinished /\ i = Len(successCalls))
    /\ [][SomeRejected =>
            /\ converterCalls' = converterCalls
            /\ successCalls' = successCalls
            /\ ~successFinished']_vars

\* The promise of the first success call rejected, and the error-free
\* programs the host created afterwards wait unconverted.
C21_Witness ==
    /\ Len(successCalls) = 1
    /\ successCalls[1].promise = "rejected"
    /\ Len(converterCalls) = 1
    /\ Len(programsSeen) = 3
    /\ programsSeen[2].ndiag = 0
    /\ programsSeen[3].ndiag = 0
    /\ currentProgram = programsSeen[3]
    /\ ~successFinished

ProgramCreatedInStep == Len(programsSeen') = Len(programsSeen) + 1

\* C22: a program with a diagnostic starts no conversion and no success
\* call and leaves currentProgram and successFinished as they are; every
\* program the host creates is handed to the original afterProgramCreate,
\* once and in order, after the conversions runSuccess made for it; every
\* program converted is error-free.
C22_ErroneousProgramIgnored ==
    /\ [][ProgramCreatedInStep =>
            LET program == programsSeen'[Len(programsSeen')] IN
            /\ origCalls' = Append(HandedOver,
                                   [program |-> program.id,
                                    converted |-> Len(converterCalls')])
            /\ program.ndiag > 0 =>
                /\ converterCalls' = converterCalls
                /\ successCalls' = successCalls
                /\ currentProgram' = currentProgram
                /\ successFinished' = successFinished]_vars
    /\ [](/\ Len(origCalls) = Len(programsSeen)
          /\ \A i \in 1..Len(origCalls) : origCalls[i].program = programsSeen[i].id
          /\ \A n \in 1..Len(converterCalls) : converterCalls[n].program.ndiag = 0)

\* A program with a diagnostic was created while an older error-free
\* program was pending, and the original hook got it after the one
\* conversion made before.
C22_Witness ==
    /\ Len(programsSeen) = 3
    /\ programsSeen[3].ndiag > 0
    /\ currentProgram = programsSeen[2]
    /\ Len(origCalls) = 3
    /\ origCalls[2].program = programsSeen[2].id
    /\ origCalls[3].converted = 1

\* ======================================================== getModuleName
\* Entry files of one run, some of them close in name.
NLibA == << <<"lib">>, <<"a", ".ts">> >>
NLibAx == << <<"lib">>, <<"a", ".tsx">> >>
NLibAd == << <<"lib">>, <<"a", ".d", ".ts">> >>
NLibAIndex == << <<"lib">>, <<"a">>, <<"index", ".ts">> >>
NLibB == << <<"lib">>, <<"b", ".js">> >>
NLibIndex == << <<"lib">>, <<"index", ".ts">> >>
NIndex == << <<"index", ".ts">> >>
NOtherC == << <<"other">>, <<"c", ".ts">> >>

EntryFiles == {NLibA, NLibAx, NLibAd, NLibAIndex, NLibB, NLibIndex, NIndex, NOtherC}

\* The lists of input files, no file twice.
EntryFileLists ==
    {fs \in SeqsUpTo(EntryFiles, MaxEntryPoints) :
        \A i, j \in 1..Len(fs) : fs[i] = fs[j] => i = j}

\* getCommonDirectory(inputFiles): the directory of a single file, the
\* longest run of leading path parts the files share otherwise.
getCommonDirectory(files) ==
    IF files = <<>> THEN <<>>
    ELSE IF Len(files) = 1 THEN Parent(files[1])
    ELSE LET shared(k) == \A i \in 1..Len(files) :
                              /\ Len(files[i]) >= k
                              /\ SubSeq(files[i], 1, k) = SubSeq(files[1], 1, k)
             n == CHOOSE k \in 0..Len(files[1]) :
                      shared(k) /\ (k = Len(files[1]) \/ ~shared(k + 1))
         IN  SubSeq(files[1], 1, n)

\* Path.relative(baseDir, fileName), for a file below baseDir.
relative(baseDir, fileName) == SubSeq(fileName, Len(baseDir) + 1, Len(fileName))

\* The file name without what (\.d)?\.[tj]sx?$ matches.
withoutExtension(name) ==
    IF Len(name) > 1 /\ Last(name) \in {".ts", ".tsx", ".js", ".jsx"}
    THEN LET stem == SubSeq(name, 1, Len(name) - 1) IN
         IF Len(stem) > 1 /\ Last(stem) = ".d"
         THEN SubSeq(stem, 1, Len(stem) - 1)
         ELSE stem
    ELSE name

\* getModuleName(fileName, baseDir): the relative path with
\* /(\/index)?(\.d)?\.[tj]sx?$/ replaced by "".
getModuleName(fileName, baseDir) ==
    LET rel == relative(baseDir, fileName)
        dir == SubSeq(rel, 1, Len(rel) - 1)
        stem == withoutExtension(Last(rel))
    IN  IF stem = Last(rel) THEN rel
        ELSE IF stem = <<"index">> /\ dir # <<>> THEN dir
        ELSE Append(dir, stem)

InitNames ==
    /\ pc = "start"
    /\ opts \in {Options(FlagProfile, <<>>, fs, {}, <<>>) :
                    FlagProfile \in {g \in FlagProfiles : g.allowJs},
                    fs \in EntryFileLists}
    /\ world = None
    /\ log = <<>>
    /\ converterCalls = <<>>
    /\ emitted = <<>>
    /\ result = None
    /\ successFinished = TRUE
    /\ currentProgram = None
    /\ programsSeen = <<>>
    /\ successCalls = <<>>
    /\ origCalls = <<>>
    /\ resolver = None

\* getEntrypointsForPaths from getCommonDirectory on, over input files the
\* programs all hold: the display names of the entry points, in order.
NameEntrypoints ==
    /\ pc = "start"
    /\ LET inputFiles == opts.entryPoints
           baseDir == getCommonDirectory(inputFiles)
       IN  result' = [displayNames |->
                         [i \in 1..Len(inputFiles) |-> getModuleName(inputFiles[i], baseDir)]]
    /\ pc' = "named"
    /\ UNCHANGED <<resolver, opts, world, log, converterCalls, emitted, successFinished,
                   currentProgram, programsSeen, successCalls, origCalls>>

NextNames == NameEntrypoints

SpecNames == InitNames /\ [][NextNames]_vars

\* C23: two different entry files of one run get different display names.
C23_DistinctDisplayNames ==
    pc = "named" =>
        \A i, j \in 1..Len(opts.entryPoints) :
            opts.entryPoints[i] # opts.entryPoints[j] =>
                result.displayNames[i] # result.displayNames[j]

====
